---- MODULE Spec2Model ----
(***************************************************************************)
(* A model of @simplestack/store (src/unnamed/part_010, lines 150-572):    *)
(* the root store, select() handles, the copy-on-write selection write,   *)
(* the equality-gated subscribe() and the microtask-batched effect        *)
(* scheduler built on signal-polyfill.                                     *)
(*                                                                         *)
(* JavaScript objects live in a heap of immutable-by-convention records;  *)
(* a reference is the index of the object in the heap, so that Object.is  *)
(* on two references is equality of indices.                               *)
(***************************************************************************)
EXTENDS Integers, Sequences, FiniteSets, TLC

\* ------------------------------------------------------------------ bounds
MaxKey == 1        \* property keys / array indices are 0..MaxKey
MaxNum == 2        \* numbers are 1..MaxNum
MaxPathLen == 2    \* longest path given to one select() call
MaxObjs == 7       \* heap capacity
MaxSubs == 2       \* subscribe() calls
MaxWrites == 2     \* set() calls
MaxLitRef == 1     \* objects a caller passes by reference to set()
MaxDeepSubs == 1   \* subscriptions at a time to handles more than one key deep
MaxMiddleware == 2 \* middlewares given to store()

Keys == 0..MaxKey

\* ------------------------------------------------------------------ values
Undef == [t |-> "undef", v |-> 0]
Null == [t |-> "null", v |-> 0]
Num(n) == [t |-> "num", v |-> n]
Ref(i) == [t |-> "ref", v |-> i]
\* an own property that does not exist (a missing key, an array hole)
Absent == [t |-> "absent", v |-> 0]
\* the outcome of an expression that throws a TypeError
Thrown == [t |-> "throw", v |-> 0]
\* "the callback was never called"
None == [t |-> "none", v |-> 0]

Prims == {Undef, Null} \cup {Num(n) : n \in 1..MaxNum}

Max(a, b) == IF a > b THEN a ELSE b

isStatePrimitive(state) == state.t \in {"num", "undef", "null"}

ObjectIs(a, b) == a = b

\* ------------------------------------------------------------------ objects
\* A heap object: a plain mapping (arr = FALSE) or an array (arr = TRUE)
\* of length len; f[k] = Absent when the object does not own key k.
Mapping(f) == [arr |-> FALSE, len |-> 0, f |-> f]
Array(len, f) == [arr |-> TRUE, len |-> len, f |-> f]

\* an Array.isArray that recognises no array
isArrayNever(h, x) == FALSE

isArray(h, x) == x.t = "ref" /\ h[x.v].arr

\* an Object.hasOwn that finds every key
hasOwnAlways(h, x, key) == TRUE

hasOwn(h, x, key) == h[x.v].f[key] # Absent

\* current[key] on a value that is not null/undefined
GetKey(h, current, key) ==
  IF current.t \in {"undef", "null", "throw"} THEN Thrown
  ELSE IF current.t # "ref" THEN Undef
  ELSE IF h[current.v].f[key] = Absent THEN Undef
  ELSE h[current.v].f[key]

\* { [key]: next } in place of { ...current, [key]: next }
SpreadDropsSiblings(h, x) ==
  IF h[x.v].arr THEN Array(0, [k \in Keys |-> Absent]) ELSE Mapping([k \in Keys |-> Absent])

\* [...current] : holes become own undefined elements
\* { ...current } : own properties are copied
Spread(h, x) ==
  LET o == h[x.v] IN
  IF o.arr
    THEN Array(o.len, [k \in Keys |->
           IF k < o.len THEN (IF o.f[k] = Absent THEN Undef ELSE o.f[k])
           ELSE Absent])
    ELSE Mapping(o.f)

\* obj[key] = val
Assign(o, key, val) ==
  [arr |-> o.arr,
   len |-> IF o.arr THEN Max(o.len, key + 1) ELSE 0,
   f |-> [o.f EXCEPT ![key] = val]]

\* ------------------------------------------------------------------ paths
RECURSIVE SeqsUpTo(_, _)
SeqsUpTo(S, n) ==
  IF n = 0 THEN {<<>>}
  ELSE LET R == SeqsUpTo(S, n - 1) IN
       R \cup {Append(p, k) : p \in R, k \in S}

Paths == SeqsUpTo(Keys, MaxPathLen) \ {<<>>}

\* A handle is the chain of select() calls that produced it: <<>> is the
\* root store, <<p>> is root.select(...p), <<p, q>> is
\* root.select(...p).select(...q).
RootHandle == <<>>
PathHandles == {<<p>> : p \in Paths}
ChainHandles == {<< <<0>>, <<k>> >> : k \in Keys}
SelHandles == PathHandles \cup ChainHandles

\* ------------------------------------------------------------------ reading
\* the loop of getAtPath without its isStatePrimitive(current) test
RECURSIVE getAtPathUnchecked(_, _, _, _)
getAtPathUnchecked(h, current, path, i) ==
  IF i > Len(path) THEN current
  ELSE getAtPathUnchecked(h, GetKey(h, current, path[i]), path, i + 1)

\* the loop of getAtPath; a TypeError thrown by current[key] is the result
RECURSIVE getAtPathFrom(_, _, _, _)
getAtPathFrom(h, current, path, i) ==
  IF i > Len(path) THEN current
  ELSE IF isStatePrimitive(current) THEN Undef
  ELSE getAtPathFrom(h, GetKey(h, current, path[i]), path, i + 1)

\* a getAtPath that stops after the first key
getAtPathFirstKey(h, state, path) == getAtPathFrom(h, state, <<path[1]>>, 1)

\* const getAtPath = (state, path) => { ... }
getAtPath(h, state, path) == getAtPathFrom(h, state, path, 1)

\* getSelected reading the root's value instead of the get of its parent
getFromRoot(h, state, hd, i) ==
  IF i > Len(hd) THEN state ELSE getAtPath(h, state, hd[Len(hd)])

\* get() of a handle: getSelected = () => getAtPath(get(), path), where get
\* is the get of the handle select() was called on
RECURSIVE getFrom(_, _, _, _)
getFrom(h, state, hd, i) ==
  IF i > Len(hd) THEN state
  ELSE getFrom(h, getAtPath(h, state, hd[i]), hd, i + 1)

get(h, state, hd) == getFrom(h, state, hd, 1)

\* ------------------------------------------------------------------ setters
\* What a caller passes to set(): a literal value, or an updater function
\*   id    s => s
\*   bump  n => n + 1 (wrapping, 1 for a value that is not a number)
\*   with  s => ({ ...s, [key]: v })
Lit(v) == [k |-> "lit", key |-> 0, v |-> v]
Fn(name) == [k |-> name, key |-> 0, v |-> Undef]
With(key, v) == [k |-> "with", key |-> key, v |-> v]

\* the result of a set() updater: the value, the heap after the objects it
\* allocated, the path of the last warning it printed
Result(v, h, warn) == [v |-> v, h |-> h, warn |-> warn]

\* an updater called without the current state: setter(undefined)
ApplySetterWithoutState(h, prev, setter) ==
  CASE setter.k = "lit" -> Result(setter.v, h, <<>>)
    [] setter.k = "id" -> Result(Undef, h, <<>>)
    [] setter.k = "bump" -> Result(Num(1), h, <<>>)
    [] setter.k = "with" ->
         LET h2 == Append(h, Assign(Mapping([k \in Keys |-> Absent]), setter.key, setter.v))
         IN Result(Ref(Len(h2)), h2, <<>>)

\* typeof setter === "function" ? setter(prev) : setter
ApplySetter(h, prev, setter) ==
  CASE setter.k = "lit" -> Result(setter.v, h, <<>>)
    [] setter.k = "id" -> Result(prev, h, <<>>)
    [] setter.k = "bump" ->
         Result(IF prev.t = "num" THEN Num((prev.v % MaxNum) + 1) ELSE Num(1), h, <<>>)
    [] setter.k = "with" ->
         LET base == IF prev.t = "ref" THEN Mapping(h[prev.v].f)
                     ELSE Mapping([k \in Keys |-> Absent])
             h2 == Append(h, Assign(base, setter.key, setter.v))
         IN Result(Ref(Len(h2)), h2, <<>>)

\* ------------------------------------------------------------------ writing
\* the first loop without its isStatePrimitive(current) test
RECURSIVE WalkParentsUnchecked(_, _, _, _, _)
WalkParentsUnchecked(h, path, i, current, parents) ==
  IF i > Len(path) - 1
    THEN [discarded |-> FALSE, current |-> current, parents |-> parents]
  ELSE WalkParentsUnchecked(h, path, i + 1, GetKey(h, current, path[i]),
                            Append(parents, current))

\* the first loop of setSelected: walk the path down to the container of the
\* last key, collecting the containers passed through; a TypeError thrown by
\* current[key] ends the walk
RECURSIVE WalkParents(_, _, _, _, _)
WalkParents(h, path, i, current, parents) ==
  IF i > Len(path) - 1
    THEN [discarded |-> FALSE, current |-> current, parents |-> parents]
  ELSE IF isStatePrimitive(current)
    THEN [discarded |-> TRUE, current |-> current, parents |-> parents]
  ELSE WalkParents(h, path, i + 1, GetKey(h, current, path[i]), Append(parents, current))

\* warnDiscardedSet(path); return;
DiscardReturnsUndefined(h, state, path) == Result(Undef, h, path)

\* warnDiscardedSet(path); return state;
Discard(h, state, path) == Result(state, h, path)

\* updated = current, with no copy
CloneInPlace(h, x) == [h |-> h, r |-> x]

\* Array.isArray(x) ? [...x] : { ...x } : a fresh object
Clone(h, x) == [h |-> Append(h, Spread(h, x)), r |-> Ref(Len(h) + 1)]

\* the object r refers to gets val at key
AssignAt(h, r, key, val) == [h EXCEPT ![r.v] = Assign(h[r.v], key, val)]

\* the second loop left out: the clone of the last container is returned
RebuildSkipsParents(h, parents, path, i, updated) == [h |-> h, r |-> updated]

\* the second loop of setSelected: clone every collected container, deepest
\* first, and put the clone of its child at the key that led to it
RECURSIVE Rebuild(_, _, _, _, _)
Rebuild(h, parents, path, i, updated) ==
  IF i = 0 THEN [h |-> h, r |-> updated]
  ELSE LET c == Clone(h, parents[i])
       IN Rebuild(AssignAt(c.h, c.r, path[i], updated), parents, path, i - 1, c.r)

\* no test of Object.is(prev, next)
NeverSame(prev, next) == FALSE

\* Object.is(prev, next) in setSelected
SameAsPrev(prev, next) == ObjectIs(prev, next)

\* the updater setSelected hands to the set of the handle it was selected
\* from; setter(prev) is the updater of the next handle of the chain, or the
\* caller's setter for the last one
RECURSIVE ApplySet(_, _, _, _, _)
setSelected(h, state, hd, i, setter) ==
  LET path == hd[i]
      w == WalkParents(h, path, 1, state, <<>>)
      lastKey == path[Len(path)]
  IN IF w.current = Thrown THEN Result(Thrown, h, <<>>)
     ELSE IF w.discarded \/ isStatePrimitive(w.current) THEN Discard(h, state, path)
     ELSE IF ~isArray(h, w.current) /\ ~hasOwn(h, w.current, lastKey)
       THEN Discard(h, state, path)
     ELSE LET prev == GetKey(h, w.current, lastKey)
              nx == ApplySet(h, prev, hd, i + 1, setter)
          IN IF nx.v = Thrown THEN nx
             ELSE IF SameAsPrev(prev, nx.v) THEN Result(state, nx.h, nx.warn)
             ELSE LET c == Clone(nx.h, w.current)
                      b == Rebuild(AssignAt(c.h, c.r, lastKey, nx.v),
                                   w.parents, path, Len(w.parents), c.r)
                  IN Result(b.r, b.h, nx.warn)

\* a selection of a selection that hands the caller's setter to its parent
\* as it is, without navigating its own path
ApplySetSkipsChain(h, state, hd, i, setter) ==
  IF i > Len(hd) \/ i > 1 THEN ApplySetter(h, state, setter)
  ELSE setSelected(h, state, hd, i, setter)

ApplySet(h, state, hd, i, setter) ==
  IF i > Len(hd) THEN ApplySetter(h, state, setter)
  ELSE setSelected(h, state, hd, i, setter)

\* set(setter) of a handle, down to the argument of state.set(...)
baseSet(h, state, hd, setter) == ApplySet(h, state, hd, 1, setter)

\* ------------------------------------------------------------------ middleware
\* What a set wrapper hands to next: the updater of handle hd called with the
\* caller's setter, its result raised by plus (the incrementer's
\* (state) => setter(state) + 1 and () => setter + 1).
Updater(hd, setter, plus) == [hd |-> hd, setter |-> setter, plus |-> plus]

\* What a middleware returned and what has been seen of it: the kind of its
\* init (none, hydrate: api.set(arg), cleanup: returns a function), the kind of
\* its set wrapper (none, log, incr, drop), how many times init and the cleanup
\* function were called and, for the last operation, how many times the
\* wrapper was called, the setter it got, the setter it passed to next (<<>>
\* when it did not call next) and what api.get() returned to it before and
\* after next.
Entry(init, arg, wrapper) ==
  [init |-> init, arg |-> arg, set |-> wrapper, inits |-> 0, cleaned |-> 0,
   calls |-> 0, got |-> <<>>, passed |-> <<>>, prev |-> None, post |-> None]

Calm(es) ==
  [i \in 1..Len(es) |->
    [es[i] EXCEPT !.calls = 0, !.got = <<>>, !.passed = <<>>, !.prev = None, !.post = None]]

\* the set of store() called with what the wrappers handed down:
\* state.set(typeof setter === "function" ? setter(state.get()) : setter);
\* the incrementer is a StoreMiddleware<number>, it adds to a number
storeSet(h, state, u) ==
  LET r == baseSet(h, state, u.hd, u.setter)
  IN IF u.plus = 0 \/ r.v = Thrown THEN r ELSE Result(Num(r.v.v + u.plus), r.h, r.warn)

\* the outcome of set(setter): the value of the cell, the heap, the warning,
\* whether the call threw, the entries
Outcome(v, h, warn, thrown, es) == [v |-> v, h |-> h, warn |-> warn, thrown |-> thrown, es |-> es]

\* wrapper i has been called with u and has passed p to next
Called(e, u, p, prev, post) ==
  [e EXCEPT !.calls = @ + 1, !.got = <<u>>, !.passed = p,
            !.prev = IF e.set = "log" THEN prev ELSE None,
            !.post = IF e.set = "log" THEN post ELSE None]

\* what the wrapper of entry e passes to next when it is called with u
Passed(e, u) == IF e.set = "incr" THEN Updater(u.hd, u.setter, u.plus + 1) ELSE u

\* a set left as baseSet: no wrapper is composed around it
setUnwrapped(h, state, es, i, u) ==
  LET r == storeSet(h, state, u)
  IN Outcome(IF r.v = Thrown THEN state ELSE r.v, r.h, r.warn, r.v = Thrown, es)

\* let set = baseSet; set = setWrappers.reduceRight((next, wrapper) =>
\* wrapper(next), set): the wrapper of the first middleware is the outermost.
\* set(h, state, es, i, u) is the wrapper of entry i called with u
\*   log   prev = api.get(); next(setter); record [prev, api.get()]
\*   incr  next((state) => setter(state) + 1), or next(() => setter + 1)
\*   drop  returns without calling next
\* and, past the last entry, the set of store().
RECURSIVE set(_, _, _, _, _)
\* a setSelected that hands its updater to baseSet instead of set
setFromSelectionUnwrapped(h, state, es, i, u) ==
  IF u.hd # RootHandle THEN setUnwrapped(h, state, es, i, u)
  ELSE IF i > Len(es) THEN setUnwrapped(h, state, es, i, u)
  ELSE IF es[i].set = "none" THEN set(h, state, es, i + 1, u)
  ELSE IF es[i].set = "drop"
    THEN Outcome(state, h, <<>>, FALSE, [es EXCEPT ![i] = Called(@, u, <<>>, state, None)])
  ELSE LET r == set(h, state, es, i + 1, Passed(es[i], u))
       IN [r EXCEPT !.es[i] = Called(@, u, <<Passed(es[i], u)>>, state,
                                     IF r.thrown THEN None ELSE r.v)]

set(h, state, es, i, u) ==
  IF i > Len(es)
    THEN LET r == storeSet(h, state, u)
         IN Outcome(IF r.v = Thrown THEN state ELSE r.v, r.h, r.warn, r.v = Thrown, es)
  ELSE IF es[i].set = "none" THEN set(h, state, es, i + 1, u)
  ELSE IF es[i].set = "drop"
    THEN Outcome(state, h, <<>>, FALSE, [es EXCEPT ![i] = Called(@, u, <<>>, state, None)])
  ELSE LET r == set(h, state, es, i + 1, Passed(es[i], u))
       IN [r EXCEPT !.es[i] = Called(@, u, <<Passed(es[i], u)>>, state,
                                     IF r.thrown THEN None ELSE r.v)]

\* entry.init?.() of entry i: api.set(arg) in an init is storeApi.set, the
\* wrapped set
callInit(o, i) ==
  IF o.es[i].init = "none" THEN o
  ELSE LET counted == [Calm(o.es) EXCEPT ![i].inits = @ + 1]
       IN IF o.es[i].init = "hydrate"
            THEN set(o.h, o.v, counted, 1, Updater(RootHandle, o.es[i].arg, 0))
          ELSE Outcome(o.v, o.h, <<>>, FALSE, counted)

\* no init is called while the store is built
runInitsNever(o, i) == o

\* entries.map((entry) => entry.init?.()): every init is called, in order,
\* after the wrappers have been composed
RECURSIVE runInits(_, _)
runInits(o, i) == IF i > Len(o.es) THEN o ELSE runInits(callInit(o, i), i + 1)

\* the results of the inits that are functions
cleanupsOf(es) == SelectSeq([i \in 1..Len(es) |-> i], LAMBDA i : es[i].init = "cleanup")

VARIABLES
  heap,          \* the objects allocated so far
  initial,       \* the value passed to store()
  cell,          \* the value of the Signal.State
  subs,          \* the effects created by subscribe()
  needsEnqueue,  \* the scheduler's single-flight flag
  wDirty,        \* the Watcher has notified and has not been re-armed
  microtasks,    \* processPending microtasks queued
  warned,        \* the path console.warn printed in the last set(), or <<>>
  err,           \* the last operation threw a TypeError
  writes,        \* set() calls so far
  last,          \* the last operation
  entries,       \* what each middleware of options.middleware returned
  cleanups,      \* the cleanup functions destroy() has still to call
  callbacks,     \* what the callback of each subscribe() call does
  drain          \* the processPending() call in progress

vars ==
  <<heap, initial, cell, subs, needsEnqueue, wDirty, microtasks, warned, err, writes, last,
    entries, cleanups, callbacks, drain>>

SubIds == 1..MaxSubs

\* an effect, created by subscribe() (k = "subscribe") or by effect() itself
\* (k = "effect"): the handle it reads, the previousValue slot of subscribe,
\* the dirty flag of its Signal.Computed, how many times the last operation
\* called its callback and the argument of the last call, whether the
\* variable cleanup holds a function and whether that function has been
\* called already, how many times the last operation called a cleanup
\* function and whether it called one that had been called before
UnusedSub ==
  [st |-> "unused", k |-> "subscribe", hd |-> RootHandle, previousValue |-> Undef,
   dirty |-> FALSE, n |-> 0, arg |-> None, cleanup |-> FALSE, used |-> FALSE,
   cl |-> 0, again |-> FALSE]

\* A processPending() call: whether one is in progress, the computeds of
\* w.getPending() it has still to evaluate, those the array held when the
\* loop started, and how many times the call has evaluated each computed and
\* has called each callback.
Idle ==
  [on |-> FALSE, pending |-> <<>>, snapshot |-> {},
   evals |-> [s \in SubIds |-> 0], calls |-> [s \in SubIds |-> 0]]

\* ------------------------------------------------------------------ initial
\* store({ 0: { 0: 1, 1: {} }, 1: [1] })
ObjectHeap ==
  << Mapping([k \in Keys |-> IF k = 0 THEN Ref(2) ELSE IF k = 1 THEN Ref(3) ELSE Absent]),
     Mapping([k \in Keys |-> IF k = 0 THEN Num(1) ELSE IF k = 1 THEN Ref(4) ELSE Absent]),
     Array(1, [k \in Keys |-> IF k = 0 THEN Num(1) ELSE Absent]),
     Mapping([k \in Keys |-> Absent]) >>

\* the stores the model starts from: store(<object>) and store(1)
InitialStores == {[heap |-> ObjectHeap, v |-> Ref(1)], [heap |-> <<>>, v |-> Num(1)]}

Init ==
  /\ \E s \in InitialStores : heap = s.heap /\ initial = s.v /\ cell = s.v
  /\ subs = [s \in SubIds |-> UnusedSub]
  /\ needsEnqueue = TRUE
  /\ wDirty = FALSE
  /\ microtasks = 0
  /\ warned = <<>>
  /\ err = FALSE
  /\ writes = 0
  /\ last = "store"
  /\ entries = <<>>
  /\ cleanups = <<>>
  /\ callbacks = [s \in SubIds |-> "none"]
  /\ drain = Idle

\* a getInitial that returns the value of the cell
getInitialLive == cell

\* const getInitial = () => initial
getInitial == initial

\* a getInitialSelected that navigates the current value of the root
getInitialSelectedLive(hd) == getFrom(heap, cell, hd, 1)

\* getInitial() of a selection:
\* getInitialSelected = () => getAtPath(getInitial(), path), where getInitial
\* is the getInitial of the handle select() was called on
getInitialSelected(hd) == getFrom(heap, getInitial, hd, 1)

\* a canSelect evaluated at every use: !isStatePrimitive(get())
canSelectLive == ~isStatePrimitive(cell)

\* const canSelect = options?.selectable ?? !isStatePrimitive(get()), taken
\* when store() returns
canSelect == ~isStatePrimitive(initial)

\* the handles a caller can hold
Handles == IF canSelect THEN {RootHandle} \cup SelHandles ELSE {RootHandle}

\* the values a caller can pass: primitives and the objects it has seen
Values == Prims \cup {Ref(i) : i \in {j \in 1..Len(heap) : j > Len(heap) - MaxLitRef}}

Setters ==
  {Lit(v) : v \in Values} \cup {Fn("id"), Fn("bump")}
    \cup {With(k, Num(MaxNum)) : k \in Keys}

\* ------------------------------------------------------------------ effects
\* the effect body without its Object.is test
RunSubscriberUngated(h, state, sub) ==
  LET value == get(h, state, sub.hd)
  IN [sub EXCEPT !.previousValue = value, !.dirty = FALSE, !.n = 1, !.arg = value]

\* the effect body without previousValue = value
RunSubscriberKeepsSlot(h, state, sub) ==
  LET value == get(h, state, sub.hd)
  IN IF ~ObjectIs(sub.previousValue, value)
       THEN [sub EXCEPT !.dirty = FALSE, !.n = 1, !.arg = value]
       ELSE [sub EXCEPT !.dirty = FALSE, !.n = 0]

\* the body of the effect of subscribe(callback)
RunSubscriber(h, state, sub) ==
  LET value == get(h, state, sub.hd)
  IN IF ~ObjectIs(sub.previousValue, value)
       THEN [sub EXCEPT !.previousValue = value, !.dirty = FALSE,
                        !.n = 1, !.arg = value]
       ELSE [sub EXCEPT !.dirty = FALSE, !.n = 0]

\* the computed of effect(fn), for an fn that reads the handle and returns a
\* cleanup function unless the value is undefined: the function held in
\* cleanup is called, then fn, and cleanup is assigned only what is a
\* function
RunEffect(h, state, sub) ==
  LET value == get(h, state, sub.hd)
      returnsCleanup == value # Undef
  IN [sub EXCEPT !.dirty = FALSE, !.n = 1, !.arg = value,
                 !.cl = IF sub.cleanup THEN 1 ELSE 0,
                 !.again = sub.cleanup /\ sub.used,
                 !.cleanup = sub.cleanup \/ returnsCleanup,
                 !.used = ~returnsCleanup /\ sub.cleanup]

\* s.get() of a pending computed
RunComputed(h, state, sub) ==
  IF sub.k = "effect" THEN RunEffect(h, state, sub) ELSE RunSubscriber(h, state, sub)

\* an operation that calls no callback and no cleanup
Quiet(sub) == [sub EXCEPT !.n = 0, !.cl = 0, !.again = FALSE]

\* the number of keys between the root and the value of a handle
RECURSIVE Depth(_)
Depth(hd) == IF hd = <<>> THEN 0 ELSE Len(Head(hd)) + Depth(Tail(hd))

DeepSubs == {s \in SubIds : subs[s].st = "active" /\ Depth(subs[s].hd) > 1}

\* the computeds the Watcher watches
Watched(s) == subs[s].st = "active"

\* a Signal.State built with { equals: () => false }
NotifiedWithoutEquals(next) == {s \in SubIds : Watched(s) /\ ~subs[s].dirty}

\* state.set(next) of the Signal.State built by store(): a value that is not
\* Object.is the current one marks the watched computeds that are clean
Notified(next) == {s \in SubIds : Watched(s) /\ ~subs[s].dirty /\ ~ObjectIs(cell, next)}

\* the Watcher calls its callback when the first watched computed becomes
\* dirty after the Watcher was armed
WatcherNotifies(next) == Notified(next) # {} /\ ~wDirty

\* a Watcher callback without its test of needsEnqueue
WatcherCallbackUnflagged(ne, mt) == [needsEnqueue |-> FALSE, microtasks |-> mt + 1]

\* new Signal.subtle.Watcher(() => { if (needsEnqueue) { ... } })
WatcherCallback(ne, mt) ==
  IF ne THEN [needsEnqueue |-> FALSE, microtasks |-> mt + 1]
  ELSE [needsEnqueue |-> ne, microtasks |-> mt]

\* processPending without needsEnqueue = true
processPendingKeepsFlag(h, state, ss, ne) ==
  [needsEnqueue |-> ne,
   subs |-> [s \in SubIds |->
     IF ss[s].st = "active" /\ ss[s].dirty THEN RunComputed(h, state, ss[s])
     ELSE Quiet(ss[s])],
   wDirty |-> FALSE]

\* processPending evaluating every dirty computed, those the Watcher no
\* longer watches included
processPendingUnwatched(h, state, ss, ne) ==
  [needsEnqueue |-> TRUE,
   subs |-> [s \in SubIds |->
     IF ss[s].dirty THEN RunComputed(h, state, ss[s]) ELSE Quiet(ss[s])],
   wDirty |-> FALSE]

\* processPending without its final w.watch(): the Watcher stays notified
processPendingNoRearm(h, state, ss, ne) ==
  [needsEnqueue |-> TRUE,
   subs |-> [s \in SubIds |->
     IF ss[s].st = "active" /\ ss[s].dirty THEN RunComputed(h, state, ss[s])
     ELSE Quiet(ss[s])],
   wDirty |-> wDirty]

\* function processPending(): re-arm the flag, evaluate every pending
\* computed, re-arm the Watcher
processPending(h, state, ss, ne) ==
  [needsEnqueue |-> TRUE,
   subs |-> [s \in SubIds |->
     IF ss[s].st = "active" /\ ss[s].dirty THEN RunComputed(h, state, ss[s])
     ELSE Quiet(ss[s])],
   wDirty |-> FALSE]

\* ------------------------------------------------------------------ actions
\* handle.subscribe(callback)
Subscribe(s, hd) ==
  /\ subs[s].st = "unused"
  /\ \A r \in SubIds : r < s => subs[r].st # "unused"
  /\ Depth(hd) > 1 => Cardinality(DeepSubs) < MaxDeepSubs
  /\ subs' = [r \in SubIds |->
       IF r = s
         THEN RunSubscriber(heap, cell, [UnusedSub EXCEPT !.st = "active", !.hd = hd])
         ELSE Quiet(subs[r])]
  /\ wDirty' = FALSE
  /\ warned' = <<>>
  /\ err' = FALSE
  /\ last' = "subscribe"
  /\ UNCHANGED <<heap, initial, cell, needsEnqueue, microtasks,
                 writes, entries, cleanups, callbacks, drain>>

\* effect(fn) for an fn that reads the root and returns a cleanup function
\* unless the value is undefined:
\* w.watch(computed); computed.get()
Effect(s) ==
  /\ subs[s].st = "unused"
  /\ \A r \in SubIds : r < s => subs[r].st # "unused"
  /\ subs' = [r \in SubIds |->
       IF r = s
         THEN RunEffect(heap, cell, [UnusedSub EXCEPT !.st = "active", !.k = "effect"])
         ELSE Quiet(subs[r])]
  /\ wDirty' = FALSE
  /\ warned' = <<>>
  /\ err' = FALSE
  /\ last' = "effect"
  /\ UNCHANGED <<heap, initial, cell, needsEnqueue, microtasks,
                 writes, entries, cleanups, callbacks, drain>>

\* a cancel function that leaves the variable cleanup as it is
UnsubscribeKeepsCleanup(s) ==
  /\ subs[s].st \in {"active", "cancelled"}
  /\ subs' = [r \in SubIds |->
       IF r = s
         THEN [UnusedSub EXCEPT !.st = "cancelled", !.dirty = subs[s].dirty,
                                !.cleanup = subs[s].cleanup,
                                !.used = subs[s].cleanup,
                                !.cl = IF subs[s].cleanup THEN 1 ELSE 0,
                                !.again = subs[s].cleanup /\ subs[s].used]
         ELSE Quiet(subs[r])]
  /\ warned' = <<>>
  /\ err' = FALSE
  /\ last' = "unsubscribe"
  /\ UNCHANGED <<heap, initial, cell, needsEnqueue, wDirty,
                 microtasks, writes, entries, cleanups, callbacks, drain>>

\* the function subscribe() or effect() returned: w.unwatch(computed), then
\* the cleanup if there is one, then cleanup = undefined; the computed is
\* left as it is, dirty if a write has marked it, and nothing refers to the
\* rest of the effect any more
Unsubscribe(s) ==
  /\ subs[s].st \in {"active", "cancelled"}
  /\ subs' = [r \in SubIds |->
       IF r = s
         THEN [UnusedSub EXCEPT !.st = "cancelled", !.dirty = subs[s].dirty,
                                !.cl = IF subs[s].cleanup THEN 1 ELSE 0,
                                !.again = subs[s].cleanup /\ subs[s].used]
         ELSE Quiet(subs[r])]
  /\ warned' = <<>>
  /\ err' = FALSE
  /\ last' = "unsubscribe"
  /\ UNCHANGED <<heap, initial, cell, needsEnqueue, wDirty,
                 microtasks, writes, entries, cleanups, callbacks, drain>>

\* a set whose Watcher callback runs processPending itself instead of
\* queueing it
SetFlushesSynchronously(hd, setter) ==
  /\ writes < MaxWrites
  /\ LET u == baseSet(heap, cell, hd, setter)
         r == IF u.v = Thrown THEN Result(cell, u.h, u.warn) ELSE u
         marked == [s \in SubIds |->
                     IF s \in Notified(r.v) THEN [Quiet(subs[s]) EXCEPT !.dirty = TRUE]
                     ELSE Quiet(subs[s])]
     IN /\ Len(r.h) <= MaxObjs
        /\ heap' = r.h
        /\ cell' = r.v
        /\ warned' = r.warn
        /\ err' = (u.v = Thrown)
        /\ subs' = IF WatcherNotifies(r.v)
                     THEN processPending(r.h, r.v, marked, needsEnqueue).subs
                     ELSE marked
        /\ wDirty' = FALSE
        /\ UNCHANGED <<needsEnqueue, microtasks>>
  /\ writes' = writes + 1
  /\ last' = IF hd = RootHandle THEN "set" ELSE "select.set"
  /\ UNCHANGED <<initial, entries, cleanups, callbacks, drain>>

\* handle.set(setter): storeApi.set is (setter) => set(setter), the set the
\* wrappers of the root were composed around, and the set a selection hands
\* its updater to; an exception of the updater leaves state.set uncalled
Set(hd, setter) ==
  /\ writes < MaxWrites
  /\ \E r \in {set(heap, cell, Calm(entries), 1, Updater(hd, setter, 0))} :
        /\ Len(r.h) <= MaxObjs
        /\ heap' = r.h
        /\ cell' = r.v
        /\ warned' = r.warn
        /\ err' = r.thrown
        /\ entries' = r.es
        /\ subs' = [s \in SubIds |->
             IF s \in Notified(r.v) THEN [Quiet(subs[s]) EXCEPT !.dirty = TRUE]
             ELSE Quiet(subs[s])]
        /\ wDirty' = (wDirty \/ Notified(r.v) # {})
        /\ LET w == IF WatcherNotifies(r.v) THEN WatcherCallback(needsEnqueue, microtasks)
                    ELSE [needsEnqueue |-> needsEnqueue, microtasks |-> microtasks]
           IN needsEnqueue' = w.needsEnqueue /\ microtasks' = w.microtasks
  /\ writes' = writes + 1
  /\ last' = IF hd = RootHandle THEN "set" ELSE "select.set"
  /\ UNCHANGED <<initial, cleanups, callbacks, drain>>

\* the microtask: processPending()
Flush ==
  /\ microtasks > 0
  /\ microtasks' = microtasks - 1
  /\ LET r == processPending(heap, cell, subs, needsEnqueue)
     IN needsEnqueue' = r.needsEnqueue /\ subs' = r.subs /\ wDirty' = r.wDirty
  /\ warned' = <<>>
  /\ err' = FALSE
  /\ last' = "flush"
  /\ UNCHANGED <<heap, initial, cell, writes, entries, cleanups, callbacks, drain>>

Next ==
  \/ \E s \in SubIds, hd \in Handles : Subscribe(s, hd)
  \/ \E s \in SubIds : Unsubscribe(s)
  \/ \E hd \in Handles, setter \in Setters : Set(hd, setter)
  \/ Flush

Spec == Init /\ [][Next]_vars

\* a program that only writes: no subscriber exists
NextStore == \E hd \in Handles, setter \in Setters : Set(hd, setter)

SpecStore == Init /\ [][NextStore]_vars

\* a program with one subscriber
NextOne ==
  \/ \E hd \in Handles : Subscribe(1, hd)
  \/ Unsubscribe(1)
  \/ \E hd \in Handles, setter \in Setters : Set(hd, setter)
  \/ Flush

SpecOne == Init /\ [][NextOne]_vars

\* a program with an effect on the root and a subscriber
NextEffect ==
  \/ Effect(1)
  \/ \E hd \in Handles : Subscribe(2, hd)
  \/ \E s \in SubIds : Unsubscribe(s)
  \/ \E hd \in Handles, setter \in Setters : Set(hd, setter)
  \/ Flush

SpecEffect == Init /\ [][NextEffect]_vars

\* ------------------------------------------------------------------ store(initial, { middleware })
\* the middlewares tried: on a store of numbers the hydrating init sets a
\* number and the wrapper may be the incrementer; on a store of objects the
\* hydrating init sets one key
Middlewares(v) ==
  IF v.t = "num"
    THEN {Entry(init, Lit(Num(MaxNum)), wrapper) :
            init \in {"none", "hydrate", "cleanup"}, wrapper \in {"none", "log", "incr", "drop"}}
  ELSE {Entry(init, With(1, Num(MaxNum)), wrapper) :
          init \in {"none", "hydrate", "cleanup"}, wrapper \in {"none", "log", "drop"}}

\* store(initial, { middleware }): the state when store() returns
InitMiddleware ==
  /\ \E s \in InitialStores :
       \E middleware \in SeqsUpTo(Middlewares(s.v), MaxMiddleware) :
         \E r \in {runInits(Outcome(s.v, s.heap, <<>>, FALSE, middleware), 1)} :
            /\ heap = r.h
            /\ initial = s.v
            /\ cell = r.v
            /\ entries = r.es
            /\ cleanups = cleanupsOf(middleware)
  /\ subs = [s \in SubIds |-> UnusedSub]
  /\ needsEnqueue = TRUE
  /\ wDirty = FALSE
  /\ microtasks = 0
  /\ warned = <<>>
  /\ err = FALSE
  /\ writes = 0
  /\ last = "store"
  /\ callbacks = [s \in SubIds |-> "none"]
  /\ drain = Idle

\* a destroy that leaves the array cleanups as it is
DestroyKeepsCleanups ==
  /\ entries' = [i \in 1..Len(entries) |->
       IF \E j \in 1..Len(cleanups) : cleanups[j] = i
         THEN [Calm(entries)[i] EXCEPT !.cleaned = @ + 1]
       ELSE Calm(entries)[i]]
  /\ \A i \in 1..Len(entries) : entries[i].cleaned < 2
  /\ subs' = [s \in SubIds |-> Quiet(subs[s])]
  /\ warned' = <<>>
  /\ err' = FALSE
  /\ last' = "destroy"
  /\ UNCHANGED <<heap, initial, cell, needsEnqueue, wDirty,
                 microtasks, writes, cleanups, callbacks, drain>>

\* store.destroy(): for (const cleanup of cleanups) cleanup();
\* cleanups.length = 0; and () => {} when no init returned a function
Destroy ==
  /\ entries' = [i \in 1..Len(entries) |->
       IF \E j \in 1..Len(cleanups) : cleanups[j] = i
         THEN [Calm(entries)[i] EXCEPT !.cleaned = @ + 1]
       ELSE Calm(entries)[i]]
  /\ cleanups' = <<>>
  /\ subs' = [s \in SubIds |-> Quiet(subs[s])]
  /\ warned' = <<>>
  /\ err' = FALSE
  /\ last' = "destroy"
  /\ UNCHANGED <<heap, initial, cell, needsEnqueue, wDirty, microtasks, writes, callbacks, drain>>

\* the setters the types of the store admit: numbers on a store of numbers
TypedSetters ==
  IF initial.t = "num" THEN {Lit(Num(n)) : n \in 1..MaxNum} \cup {Fn("id"), Fn("bump")}
  ELSE Setters

\* a program that writes to a store built with middleware, and destroys it
NextMiddleware ==
  \/ \E hd \in Handles, setter \in TypedSetters : Set(hd, setter)
  \/ Destroy

SpecMiddleware == InitMiddleware /\ [][NextMiddleware]_vars

\* ------------------------------------------------------------------ processPending, step by step
\* The microtask of a program whose callbacks act: processPending() as its
\* three parts, with the callbacks called in between.

\* the value at which a callback that acts does so
Trigger == Num(MaxNum)

\* what a callback does when it is given Trigger: nothing, store.set(1), throw
\* an exception, or call the functions the other subscribe() calls returned
Acts == {"none", "set", "throw", "cancel"}

\* store(1), and the callbacks of the program
InitDrain ==
  /\ heap = <<>> /\ initial = Num(1) /\ cell = Num(1)
  /\ subs = [s \in SubIds |-> UnusedSub]
  /\ needsEnqueue = TRUE
  /\ wDirty = FALSE
  /\ microtasks = 0
  /\ warned = <<>>
  /\ err = FALSE
  /\ writes = 0
  /\ last = "store"
  /\ entries = <<>>
  /\ cleanups = <<>>
  /\ callbacks \in [SubIds -> Acts]
  /\ drain = Idle

\* w.getPending(): the watched computeds that are dirty, in the order they
\* were watched
getPending == SelectSeq([s \in SubIds |-> s], LAMBDA s : Watched(s) /\ subs[s].dirty)

\* a processPending that leaves needsEnqueue as it is when it starts
ProcessPendingStartKeepsFlag ==
  /\ ~drain.on
  /\ microtasks > 0
  /\ microtasks' = microtasks - 1
  /\ needsEnqueue' = needsEnqueue
  /\ drain' = [Idle EXCEPT !.on = TRUE, !.pending = getPending,
                           !.snapshot = {s \in SubIds : Watched(s) /\ subs[s].dirty}]
  /\ subs' = [s \in SubIds |-> Quiet(subs[s])]
  /\ warned' = <<>>
  /\ err' = FALSE
  /\ last' = "processPending"
  /\ UNCHANGED <<heap, initial, cell, wDirty, writes, entries, cleanups, callbacks>>

\* the microtask starts: needsEnqueue = true; and the array w.getPending()
\* returns is taken
ProcessPendingStart ==
  /\ ~drain.on
  /\ microtasks > 0
  /\ microtasks' = microtasks - 1
  /\ needsEnqueue' = TRUE
  /\ drain' = [Idle EXCEPT !.on = TRUE, !.pending = getPending,
                           !.snapshot = {s \in SubIds : Watched(s) /\ subs[s].dirty}]
  /\ subs' = [s \in SubIds |-> Quiet(subs[s])]
  /\ warned' = <<>>
  /\ err' = FALSE
  /\ last' = "processPending"
  /\ UNCHANGED <<heap, initial, cell, wDirty, writes, entries, cleanups, callbacks>>

\* what the callback of s does in the run ran of the effect body
Act(s, ran) == IF ran.n = 1 /\ ran.arg = Trigger THEN callbacks[s] ELSE "none"

\* the computeds store.set(1), called by the callback of s, marks: the watched
\* ones that are clean; the computed of s is being evaluated and is dirty
MarkedBy(s) == {o \in SubIds \ {s} : Watched(o) /\ ~subs[o].dirty}

\* the subscriptions after s.get() for the computed of s, whose callback acts
Evaluated(s, ran, act) ==
  [o \in SubIds |->
    IF o = s THEN ran
    ELSE IF act = "set" /\ o \in MarkedBy(s) THEN [Quiet(subs[o]) EXCEPT !.dirty = TRUE]
    ELSE IF act = "cancel" /\ subs[o].st = "active"
      THEN [Quiet(subs[o]) EXCEPT !.st = "cancelled"]
    ELSE Quiet(subs[o])]

\* a loop over the computeds that are pending now, not over the array
\* w.getPending() returned when the loop started
ProcessPendingStepLive ==
  /\ drain.on
  /\ drain.pending # <<>>
  /\ drain.evals[Head(drain.pending)] < 2
  /\ \E s \in {Head(drain.pending)} :
     \E ran \in {RunComputed(heap, cell, subs[s])} :
     \E act \in {Act(s, ran)} :
       /\ subs' = Evaluated(s, ran, act)
       /\ cell' = IF act = "set" THEN Num(1) ELSE cell
       /\ LET notifies == act = "set" /\ MarkedBy(s) # {} /\ ~wDirty
              w == IF notifies THEN WatcherCallback(needsEnqueue, microtasks)
                   ELSE [needsEnqueue |-> needsEnqueue, microtasks |-> microtasks]
          IN /\ wDirty' = (wDirty \/ (act = "set" /\ MarkedBy(s) # {}))
             /\ needsEnqueue' = w.needsEnqueue
             /\ microtasks' = w.microtasks
       /\ drain' = IF act = "throw" THEN Idle
                   ELSE [drain EXCEPT
                           !.pending = Tail(@) \o
                             SelectSeq([o \in SubIds |-> o],
                                       LAMBDA o : act = "set" /\ o \in MarkedBy(s)),
                           !.evals[s] = @ + 1, !.calls[s] = @ + ran.n]
       /\ err' = (act = "throw")
  /\ warned' = <<>>
  /\ last' = "s.get"
  /\ UNCHANGED <<heap, initial, writes, entries, cleanups, callbacks>>

\* one turn of the loop: s.get() for the next computed of the array, cancelled
\* in the meantime or not. Its callback may write, which marks the clean
\* watched computeds and notifies the Watcher if it is armed; may throw, which
\* ends processPending before w.watch(); may cancel the other subscriptions.
ProcessPendingStep ==
  /\ drain.on
  /\ drain.pending # <<>>
  /\ \E s \in {Head(drain.pending)} :
     \E ran \in {RunComputed(heap, cell, subs[s])} :
     \E act \in {Act(s, ran)} :
       /\ subs' = Evaluated(s, ran, act)
       /\ cell' = IF act = "set" THEN Num(1) ELSE cell
       /\ LET notifies == act = "set" /\ MarkedBy(s) # {} /\ ~wDirty
              w == IF notifies THEN WatcherCallback(needsEnqueue, microtasks)
                   ELSE [needsEnqueue |-> needsEnqueue, microtasks |-> microtasks]
          IN /\ wDirty' = (wDirty \/ (act = "set" /\ MarkedBy(s) # {}))
             /\ needsEnqueue' = w.needsEnqueue
             /\ microtasks' = w.microtasks
       /\ drain' = IF act = "throw" THEN Idle
                   ELSE [drain EXCEPT !.pending = Tail(@),
                                      !.evals[s] = @ + 1, !.calls[s] = @ + ran.n]
       /\ err' = (act = "throw")
  /\ warned' = <<>>
  /\ last' = "s.get"
  /\ UNCHANGED <<heap, initial, writes, entries, cleanups, callbacks>>

\* the loop is over: w.watch() re-arms the Watcher
ProcessPendingEnd ==
  /\ drain.on
  /\ drain.pending = <<>>
  /\ drain' = Idle
  /\ wDirty' = FALSE
  /\ subs' = [s \in SubIds |-> Quiet(subs[s])]
  /\ warned' = <<>>
  /\ err' = FALSE
  /\ last' = "w.watch"
  /\ UNCHANGED <<heap, initial, cell, needsEnqueue, microtasks, writes, entries, cleanups,
                 callbacks>>

\* a program on store(1) whose callbacks act; between two microtasks it
\* subscribes (while the store does not hold the value at which the callback
\* acts), unsubscribes and writes
NextDrain ==
  \/ \E s \in SubIds :
       ~drain.on /\ (callbacks[s] = "none" \/ cell # Trigger) /\ Subscribe(s, RootHandle)
  \/ \E s \in SubIds : ~drain.on /\ Unsubscribe(s)
  \/ \E setter \in TypedSetters : ~drain.on /\ Set(RootHandle, setter)
  \/ ProcessPendingStart
  \/ ProcessPendingStep
  \/ ProcessPendingEnd

SpecDrain == InitDrain /\ [][NextDrain]_vars

\* ------------------------------------------------------------------ select(key)
\* The single-key select of src/src/index.ts.

\* { ...stateObj } : the own properties of an object or of an array, copied
\* into a plain object
SpreadIntoObject(h, x) == Mapping(h[x.v].f)

\* the updater setSelected of select(key) hands to set
setSelectedKey(h, state, key, setter) ==
  IF isStatePrimitive(state) THEN Result(Thrown, h, <<>>)
  ELSE LET prev == GetKey(h, state, key)
           nx == ApplySetter(h, prev, setter)
       IN IF ObjectIs(prev, nx.v) THEN Result(state, nx.h, <<>>)
          ELSE LET h2 == Append(nx.h, Assign(SpreadIntoObject(nx.h, state), key, nx.v))
               IN Result(Ref(Len(h2)), h2, <<>>)

\* store([1, [1]])
ArrayHeap ==
  << Array(2, [k \in Keys |-> IF k = 0 THEN Num(1) ELSE IF k = 1 THEN Ref(2) ELSE Absent]),
     Array(1, [k \in Keys |-> IF k = 0 THEN Num(1) ELSE Absent]) >>

InitKey ==
  /\ \E s \in {[heap |-> ArrayHeap, v |-> Ref(1)], [heap |-> ObjectHeap, v |-> Ref(1)]} :
       heap = s.heap /\ initial = s.v /\ cell = s.v
  /\ subs = [s \in SubIds |-> UnusedSub]
  /\ needsEnqueue = TRUE
  /\ wDirty = FALSE
  /\ microtasks = 0
  /\ warned = <<>>
  /\ err = FALSE
  /\ writes = 0
  /\ last = "store"
  /\ entries = <<>>
  /\ cleanups = <<>>
  /\ callbacks = [s \in SubIds |-> "none"]
  /\ drain = Idle

\* root.select(key).set(setter); an exception of the updater leaves
\* state.set uncalled
SetKey(key, setter) ==
  /\ writes < MaxWrites
  /\ LET u == setSelectedKey(heap, cell, key, setter)
         r == IF u.v = Thrown THEN Result(cell, u.h, u.warn) ELSE u
     IN /\ Len(r.h) <= MaxObjs
        /\ heap' = r.h
        /\ cell' = r.v
        /\ warned' = r.warn
        /\ err' = (u.v = Thrown)
        /\ subs' = [s \in SubIds |->
             IF s \in Notified(r.v) THEN [Quiet(subs[s]) EXCEPT !.dirty = TRUE]
             ELSE Quiet(subs[s])]
        /\ wDirty' = (wDirty \/ Notified(r.v) # {})
        /\ LET w == IF WatcherNotifies(r.v) THEN WatcherCallback(needsEnqueue, microtasks)
                    ELSE [needsEnqueue |-> needsEnqueue, microtasks |-> microtasks]
           IN needsEnqueue' = w.needsEnqueue /\ microtasks' = w.microtasks
  /\ writes' = writes + 1
  /\ last' = "select.set"
  /\ UNCHANGED <<initial, entries, cleanups, callbacks, drain>>

\* a program that writes through the root and through root.select(key)
NextKey ==
  \/ \E setter \in Setters : Set(RootHandle, setter)
  \/ \E key \in Keys, setter \in Setters : SetKey(key, setter)

SpecKey == InitKey /\ [][NextKey]_vars

\* ------------------------------------------------------------------ selectPath
\* The selectPath of src/unnamed/part_001.

\* getSelected of selectPath(path): UNEXPECTED_SELECT_ERROR is thrown when the
\* state, or a value met before a part of the path, is a primitive
RECURSIVE selectPathGetFrom(_, _, _, _)
selectPathGetFrom(h, current, pathParts, i) ==
  IF i > Len(pathParts) THEN current
  ELSE IF isStatePrimitive(current) THEN Thrown
  ELSE selectPathGetFrom(h, GetKey(h, current, pathParts[i]), pathParts, i + 1)

selectPathGet(h, state, pathParts) ==
  IF isStatePrimitive(state) THEN Thrown ELSE selectPathGetFrom(h, state, pathParts, 1)

\* pathParts.reduce((acc, key) => acc?.[key], state)
RECURSIVE prevAtPath(_, _, _, _)
prevAtPath(h, acc, pathParts, i) ==
  IF i > Len(pathParts) THEN acc
  ELSE prevAtPath(h, IF acc \in {Undef, Null} THEN Undef ELSE GetKey(h, acc, pathParts[i]),
                  pathParts, i + 1)

\* updateNested(obj, keys, value): obj[first] throws a TypeError on undefined
\* and null; a number is spread into an empty object
RECURSIVE updateNested(_, _, _, _, _)
updateNested(h, obj, keys, i, value) ==
  IF i > Len(keys) THEN [h |-> h, r |-> value]
  ELSE IF obj \in {Undef, Null} THEN [h |-> h, r |-> Thrown]
  ELSE LET first == keys[i]
           child == updateNested(h, GetKey(h, obj, first), keys, i + 1, value)
       IN IF child.r = Thrown THEN [h |-> h, r |-> Thrown]
          ELSE LET base == IF obj.t = "ref" THEN Spread(child.h, obj)
                           ELSE Mapping([k \in Keys |-> Absent])
                   h2 == Append(child.h, Assign(base, first, child.r))
               IN [h |-> h2, r |-> Ref(Len(h2))]

\* the updater setSelected of selectPath(path) hands to set
selectPathSet(h, state, pathParts, setter) ==
  IF isStatePrimitive(state) THEN Result(Thrown, h, <<>>)
  ELSE LET prev == prevAtPath(h, state, pathParts, 1)
           nx == ApplySetter(h, prev, setter)
       IN IF ObjectIs(prev, nx.v) THEN Result(state, nx.h, <<>>)
          ELSE LET u == updateNested(nx.h, state, pathParts, 1, nx.v)
               IN Result(u.r, u.h, <<>>)

\* store({ 0: { 0: 1, 1: {} }, 1: [1] }), on which selectPath exists
InitPath ==
  /\ heap = ObjectHeap /\ initial = Ref(1) /\ cell = Ref(1)
  /\ subs = [s \in SubIds |-> UnusedSub]
  /\ needsEnqueue = TRUE
  /\ wDirty = FALSE
  /\ microtasks = 0
  /\ warned = <<>>
  /\ err = FALSE
  /\ writes = 0
  /\ last = "store"
  /\ entries = <<>>
  /\ cleanups = <<>>
  /\ callbacks = [s \in SubIds |-> "none"]
  /\ drain = Idle

\* root.selectPath(path).set(setter); an exception of the updater leaves
\* state.set uncalled
SetPath(pathParts, setter) ==
  /\ writes < MaxWrites
  /\ LET u == selectPathSet(heap, cell, pathParts, setter)
         r == IF u.v = Thrown THEN Result(cell, u.h, u.warn) ELSE u
     IN /\ Len(r.h) <= MaxObjs
        /\ heap' = r.h
        /\ cell' = r.v
        /\ warned' = r.warn
        /\ err' = (u.v = Thrown)
        /\ subs' = [s \in SubIds |->
             IF s \in Notified(r.v) THEN [Quiet(subs[s]) EXCEPT !.dirty = TRUE]
             ELSE Quiet(subs[s])]
        /\ wDirty' = (wDirty \/ Notified(r.v) # {})
        /\ LET w == IF WatcherNotifies(r.v) THEN WatcherCallback(needsEnqueue, microtasks)
                    ELSE [needsEnqueue |-> needsEnqueue, microtasks |-> microtasks]
           IN needsEnqueue' = w.needsEnqueue /\ microtasks' = w.microtasks
  /\ writes' = writes + 1
  /\ last' = "selectPath.set"
  /\ UNCHANGED <<initial, entries, cleanups, callbacks, drain>>

\* a program that writes through the root and through root.selectPath(path)
NextPath ==
  \/ \E setter \in Setters : Set(RootHandle, setter)
  \/ \E pathParts \in Paths, setter \in Setters : SetPath(pathParts, setter)

SpecPath == InitPath /\ [][NextPath]_vars

\* ------------------------------------------------------------------ properties
\* the keys between the root and the value of a handle
RECURSIVE FullPath(_)
FullPath(hd) == IF hd = <<>> THEN <<>> ELSE Head(hd) \o FullPath(Tail(hd))

Prefix(p, n) == SubSeq(p, 1, n)

\* the value found by following path p from value v, undefined once a
\* primitive is met
RECURSIVE ValueAt(_, _, _)
ValueAt(h, v, p) ==
  IF p = <<>> THEN v
  ELSE IF v.t # "ref" THEN Undef
  ELSE LET fld == h[v.v].f[Head(p)]
       IN ValueAt(h, IF fld = Absent THEN Undef ELSE fld, Tail(p))

\* every value passed through before the last key of p is structured
Structured(h, v, p) == \A n \in 0..(Len(p) - 1) : ValueAt(h, v, Prefix(p, n)).t = "ref"

\* the container of the last key of p owns it
OwnsLeaf(h, v, p) ==
  LET c == ValueAt(h, v, Prefix(p, Len(p) - 1))
  IN c.t = "ref" /\ h[c.v].f[p[Len(p)]] # Absent

\* what the caller's setter evaluates to at handle hd
Wanted(hd, setter) == ApplySetter(heap, get(heap, cell, hd), setter).v

HeldHandles == Handles \ {RootHandle}

\* C1 -- Round trip: after sel.set(x) on a path whose intermediate values are
\* structured and whose last key is owned by its container, sel.get()
\* returns x and following the path from root.get() yields x.
C1_RoundTrip ==
  [][\A hd \in HeldHandles, setter \in Setters :
       (Set(hd, setter) /\ Structured(heap, cell, FullPath(hd))
          /\ OwnsLeaf(heap, cell, FullPath(hd)))
       => /\ get(heap', cell', hd) = Wanted(hd, setter)
          /\ ValueAt(heap', cell', FullPath(hd)) = Wanted(hd, setter)]_vars

\* a write through select(0, 0) has replaced the number 1 by 2
C1_Witness ==
  /\ last = "select.set"
  /\ initial = Ref(1)
  /\ ValueAt(heap, initial, <<0, 0>>) = Num(1)
  /\ ValueAt(heap, cell, <<0, 0>>) = Num(2)

\* C2 -- Structural sharing: after a selection write that changes the value
\* at path p, every container on p keeps, at each key that is not on p, the
\* identical value (for an object, the identical reference) it had before.
C2_StructuralSharing ==
  [][\A hd \in HeldHandles, setter \in Setters :
       (Set(hd, setter) /\ cell' # cell)
       => LET p == FullPath(hd) IN
          \A n \in 0..(Len(p) - 1) :
            LET old == ValueAt(heap, cell, Prefix(p, n))
                new == ValueAt(heap', cell', Prefix(p, n))
            IN /\ old.t = "ref" /\ new.t = "ref"
               /\ heap'[new.v].arr = heap[old.v].arr
               /\ \A k \in Keys \ {p[n + 1]} :
                    GetKey(heap', new, k) = GetKey(heap, old, k)]_vars

\* a write through select(0, 0) has left the siblings root[1] and root[0][1]
\* the objects they were
C2_Witness ==
  /\ last = "select.set"
  /\ initial = Ref(1)
  /\ cell # initial
  /\ ValueAt(heap, cell, <<0, 0>>) # ValueAt(heap, initial, <<0, 0>>)
  /\ ValueAt(heap, cell, <<1>>) = Ref(3)
  /\ ValueAt(heap, cell, <<0, 1>>) = Ref(4)

\* C3 -- Copy-on-write: a selection write never modifies an object that
\* existed before it; when it changes the value, the root and every
\* container on the path are fresh references, and the root the caller held
\* before the write still shows the old value at the path.
C3_CopyOnWrite ==
  [][\A hd \in HeldHandles, setter \in Setters :
       Set(hd, setter)
       => /\ Len(heap') >= Len(heap)
          /\ \A i \in 1..Len(heap) : heap'[i] = heap[i]
          /\ cell' # cell =>
               LET p == FullPath(hd) IN
               /\ \A n \in 0..(Len(p) - 1) :
                    LET new == ValueAt(heap', cell', Prefix(p, n))
                    IN new.t = "ref" /\ new.v > Len(heap)
                         /\ new # ValueAt(heap, cell, Prefix(p, n))
               /\ ValueAt(heap', cell, p) = ValueAt(heap, cell, p)
               /\ ValueAt(heap', cell, p) # ValueAt(heap', cell', p)]_vars

\* a write through select(1, 0) has produced a new root and a new array,
\* and the array of the initial root still holds 1
C3_Witness ==
  /\ last = "select.set"
  /\ initial = Ref(1)
  /\ ValueAt(heap, initial, <<1, 0>>) = Num(1)
  /\ ValueAt(heap, cell, <<1, 0>>) = Num(2)
  /\ cell.v > Len(ObjectHeap)
  /\ ValueAt(heap, cell, <<1>>).v > Len(ObjectHeap)
  /\ isArray(heap, ValueAt(heap, cell, <<1>>))

\* C8 -- Discarded write through an absent intermediate: when a value met
\* before the last key of the path is a primitive, sel.set(x) does not throw
\* and root.get() returns the identical reference afterwards.
C8_DiscardedWrite ==
  [][\A hd \in HeldHandles, setter \in Setters :
       (Set(hd, setter) /\ ~Structured(heap, cell, FullPath(hd)))
       => ~err' /\ cell' = cell /\ heap' = heap]_vars

\* a write through a selection whose path crosses null or undefined has been
\* discarded
C8_Witness ==
  /\ last = "select.set"
  /\ warned # <<>>
  /\ ~err
  /\ \E n \in 0..(Len(warned) - 1) : ValueAt(heap, cell, Prefix(warned, n)) \in {Undef, Null}

\* C10 -- Reading through an invalid path never throws: get() of a selection
\* is undefined when a primitive is met before the path is consumed, and the
\* value at the path otherwise.
C10_ReadNeverThrows ==
  \A hd \in HeldHandles :
    LET p == FullPath(hd)
        value == get(heap, cell, hd)
    IN /\ value # Thrown
       /\ ~Structured(heap, cell, p) => value = Undef
       /\ Structured(heap, cell, p) => value = ValueAt(heap, cell, p)

\* the root holds null at key 0 and select(0, 0) reads undefined; the root
\* itself is undefined and a selection reads undefined
C10_Witness ==
  \/ /\ cell.t = "ref"
     /\ ValueAt(heap, cell, <<0>>) = Null
     /\ get(heap, cell, << <<0, 0>> >>) = Undef
  \/ /\ cell = Undef
     /\ initial = Ref(1)
     /\ get(heap, cell, << <<0>> >>) = Undef

\* the subscriptions that are active
Active == {s \in SubIds : subs[s].st = "active"}

\* what get() of the handle of subscription s returns
Current(s) == get(heap, cell, subs[s].hd)

\* no callback runs and nothing is scheduled or marked
NothingNotified ==
  /\ subs' = [s \in SubIds |-> Quiet(subs[s])]
  /\ microtasks' = microtasks
  /\ needsEnqueue' = needsEnqueue
  /\ wDirty' = wDirty

\* a subscriber that has been given a value other than the current one has
\* a flush scheduled
FlushScheduled ==
  \A s \in Active :
    (subs[s].arg # None /\ ~ObjectIs(subs[s].arg, Current(s))) => microtasks > 0

\* C4 -- Subscriber coalescing: set calls invoke no callback; once the
\* value differs from the one last delivered a flush is scheduled, and that
\* flush invokes the callback exactly once, with the final value.
C4_Coalescing ==
  [][/\ last' \in {"set", "select.set"} => \A s \in SubIds : subs'[s].n = 0
     /\ FlushScheduled'
     /\ last' = "flush" =>
          \A s \in Active :
            (subs[s].arg # None /\ ~ObjectIs(subs[s].arg, Current(s)))
            => subs'[s].n = 1 /\ subs'[s].arg = Current(s)]_vars

\* two set calls have changed root[0][0] and root[1]; the subscriber of the
\* root still holds the initial root and one flush is scheduled
C4_Witness ==
  /\ writes = 2
  /\ microtasks = 1
  /\ subs[1].st = "active" /\ subs[1].hd = RootHandle
  /\ subs[1].arg = initial /\ initial = Ref(1)
  /\ ValueAt(heap, cell, <<0, 0>>) = Num(2)
  /\ ValueAt(heap, cell, <<1>>) = Num(2)

\* C5 -- Selective notification: a flush does not invoke a subscriber whose
\* selection holds the value it last received, and invokes with the new
\* value a subscriber whose selection holds another value.
C5_SelectiveNotification ==
  [][last' = "flush" =>
       \A s \in Active :
         subs[s].arg # None =>
           /\ ObjectIs(subs[s].arg, Current(s))
                => subs'[s].n = 0 /\ subs'[s].arg = subs[s].arg
           /\ ~ObjectIs(subs[s].arg, Current(s))
                => subs'[s].n = 1 /\ subs'[s].arg = Current(s)]_vars

\* after root.set(s => ({ ...s, 1: 2 })) the flush has called the subscriber
\* of select(1) with 2 and has not called the subscriber of select(0)
C5_Witness ==
  /\ last = "flush"
  /\ initial = Ref(1)
  /\ \E s, t \in Active :
       /\ subs[s].hd = << <<0>> >> /\ subs[s].n = 0 /\ subs[s].arg = Ref(2)
       /\ subs[t].hd = << <<1>> >> /\ subs[t].n = 1 /\ subs[t].arg = Num(2)
  /\ ValueAt(heap, cell, <<0>>) = Ref(2)

\* C6 -- No-op on equal selection write: sel.set(x) with x Object.is the
\* current value of the selection leaves root.get() the identical
\* reference, invokes no callback and schedules nothing.
C6_EqualSelectionWrite ==
  [][last' = "select.set" =>
       \A hd \in HeldHandles, setter \in Setters :
         (ObjectIs(Wanted(hd, setter), get(heap, cell, hd)) /\ Set(hd, setter))
         => cell' = cell /\ NothingNotified]_vars

\* a selection write of the current value has been made, without a warning,
\* while a subscriber was active
C6_Witness ==
  /\ last = "select.set"
  /\ warned = <<>>
  /\ writes = 1
  /\ cell = initial
  /\ subs[1].st = "active" /\ subs[1].n = 0 /\ ~subs[1].dirty
  /\ microtasks = 0

\* C7 -- No-op on equal root write: root.set(v) with v Object.is the current
\* root value leaves root.get() the identical reference, invokes no callback
\* and schedules nothing.
C7_EqualRootWrite ==
  [][last' = "set" =>
       \A setter \in Setters :
         (ObjectIs(Wanted(RootHandle, setter), cell) /\ Set(RootHandle, setter))
         => cell' = cell /\ NothingNotified]_vars

\* root.set of the current root has been made while a subscriber was active
C7_Witness ==
  /\ last = "set"
  /\ writes = 1
  /\ cell = initial
  /\ subs[1].st = "active" /\ subs[1].n = 0 /\ ~subs[1].dirty
  /\ microtasks = 0

\* C9 -- A discarded selection write is invisible to subscribers: it invokes
\* no callback, marks no effect and schedules no flush.
C9_DiscardInvisible ==
  [][warned' # <<>> => cell' = cell /\ heap' = heap /\ NothingNotified]_vars

\* a selection write has been discarded while a subscriber was active
C9_Witness ==
  /\ last = "select.set"
  /\ warned # <<>>
  /\ subs[1].st = "active" /\ subs[1].n = 0 /\ ~subs[1].dirty
  /\ microtasks = 0

\* C11 -- Chained and path reads agree: for all keys a and b,
\* root.select(a).select(b).get() and root.select(a, b).get() are Object.is
\* equal at every reachable state, a primitive or absent value at a included.
C11_ChainedReadEquivalence ==
  canSelect =>
    \A a, b \in Keys :
      ObjectIs(get(heap, cell, << <<a>>, <<b>> >>), get(heap, cell, << <<a, b>> >>))

\* root[0] has been replaced by a primitive, so that both reads through key 0
\* are undefined, while both reads through key 1 still find the number 1
C11_Witness ==
  /\ initial = Ref(1)
  /\ cell.t = "ref"
  /\ ValueAt(heap, cell, <<0>>) \in Prims
  /\ get(heap, cell, << <<0>>, <<1>> >>) = Undef
  /\ get(heap, cell, << <<0, 1>> >>) = Undef
  /\ get(heap, cell, << <<1>>, <<0>> >>) = Num(1)
  /\ get(heap, cell, << <<1, 0>> >>) = Num(1)

\* the updater results of root.select(a).select(b).set(setter) and of
\* root.select(a, b).set(setter) at the current state
ChainedWrite(a, b, setter) == baseSet(heap, cell, << <<a>>, <<b>> >>, setter)
PathWrite(a, b, setter) == baseSet(heap, cell, << <<a, b>> >>, setter)

\* C12 -- Chained and path writes agree: from the same root value,
\* root.select(a).select(b).set(x) and root.select(a, b).set(x) give the same
\* root (the same fresh objects with the same content, every other object
\* shared and untouched), mark the same subscribers and schedule the same
\* flush, and one is discarded exactly when the other is.
C12_ChainedWriteEquivalence ==
  canSelect =>
    \A a, b \in Keys, setter \in Setters :
      LET c == ChainedWrite(a, b, setter)
          p == PathWrite(a, b, setter)
      IN /\ c.v = p.v
         /\ c.h = p.h
         /\ (c.warn = <<>>) = (p.warn = <<>>)
         /\ Notified(c.v) = Notified(p.v)
         /\ WatcherNotifies(c.v) = WatcherNotifies(p.v)

\* the first write, root[0][0] = 2, has been made while the root had a
\* subscriber: the state is the one the chained write and the path write both
\* lead to, the subscriber is marked and one flush is scheduled
C12_Witness ==
  /\ last = "select.set"
  /\ writes = 1
  /\ initial = Ref(1)
  /\ heap = baseSet(ObjectHeap, initial, << <<0>>, <<0>> >>, Lit(Num(2))).h
  /\ cell = baseSet(ObjectHeap, initial, << <<0, 0>> >>, Lit(Num(2))).v
  /\ cell # initial
  /\ subs[1].st = "active" /\ subs[1].hd = RootHandle /\ subs[1].dirty
  /\ microtasks = 1

\* C13 -- Unsubscribe is immediate: once the function returned by subscribe
\* has returned, the callback is not invoked again, by no later operation
\* and not by a flush that a write had scheduled before the cancellation.
C13_UnsubscribeImmediate ==
  \A s \in SubIds : subs[s].st = "cancelled" => subs[s].n = 0 /\ subs[s].arg = None

\* a write marked a subscriber and scheduled a flush, the subscriber was
\* cancelled, and the flush has run
C13_Witness ==
  /\ last = "flush"
  /\ cell # initial
  /\ \E s \in SubIds : subs[s].st = "cancelled" /\ subs[s].dirty /\ subs[s].n = 0

\* C14 -- Cancellation is idempotent: calling the function returned by
\* subscribe or effect again does not throw, calls no cleanup, and leaves
\* every other subscription or effect, the store and the scheduler as they
\* were.
C14_CancelIdempotent ==
  [][last' = "unsubscribe" =>
       \A s \in SubIds :
         (subs[s].st = "cancelled" /\ Unsubscribe(s))
         => /\ ~err'
            /\ subs'[s].cl = 0
            /\ subs' = [r \in SubIds |-> Quiet(subs[r])]
            /\ UNCHANGED <<heap, cell, needsEnqueue, wDirty, microtasks>>]_vars

\* the cancel function of an effect whose fn returned a cleanup has been
\* called a second time, while a subscription was active
C14_Witness ==
  /\ last = "unsubscribe"
  /\ writes = 0
  /\ subs[1].st = "cancelled" /\ subs[1].cl = 0
  /\ subs[2].st = "active" /\ subs[2].arg # None

\* C15 -- Initial delivery: whatever the current value of the store or
\* selection, undefined included, subscribe(callback) calls callback exactly
\* once, with the current value, before it returns.
C15_InitialDelivery ==
  [][last' = "subscribe" =>
       \A s \in SubIds :
         (subs[s].st = "unused" /\ subs'[s].st = "active")
         => subs'[s].n = 1 /\ subs'[s].arg = get(heap, cell, subs'[s].hd)]_vars

\* C16 -- Subscriber independence: with two subscribers on the same handle,
\* each is called with the current value when it subscribes, whatever the
\* other has been delivered, and each is called with the new value at a
\* flush that finds a value other than the one in its own slot.
C16_SubscriberIndependence ==
  [][/\ last' = "subscribe" =>
          \A s \in SubIds :
            (/\ subs[s].st = "unused" /\ subs'[s].st = "active"
             /\ \E t \in Active : subs[t].hd = subs'[s].hd)
            => subs'[s].n = 1 /\ subs'[s].arg = get(heap, cell, subs'[s].hd)
     /\ last' = "flush" =>
          \A s \in Active :
            ~ObjectIs(subs[s].previousValue, Current(s))
            => subs'[s].n = 1 /\ subs'[s].arg = Current(s)]_vars

\* C17 -- Callbacks never run inside set: a set call, on the root or on a
\* selection, calls no callback, and neither does a cancellation; subscribe
\* calls only the callback it was given; every other call of a callback
\* happens in a flush.
C17_NoCallbackInSet ==
  [][/\ last' \in {"set", "select.set", "unsubscribe"} => \A s \in SubIds : subs'[s].n = 0
     /\ last' = "subscribe" =>
          \A s \in SubIds : subs'[s].n > 0 => subs[s].st = "unused"]_vars

\* a set has just changed the value of a subscriber that had been called
\* with another one: the subscriber is marked, not called, and the flush is
\* queued
C17_Witness ==
  /\ last \in {"set", "select.set"}
  /\ microtasks = 1
  /\ \E s \in Active :
       /\ subs[s].dirty /\ subs[s].n = 0
       /\ subs[s].arg # None /\ ~ObjectIs(subs[s].arg, Current(s))

\* what root.get() must hold after root.set(setter) when it held prev
\* before: the literal, prev itself, the successor of a number, or a fresh
\* object that differs from prev at one key
SetterHolds(h, prev, setter, h2, next) ==
  CASE setter.k = "lit" -> next = setter.v
    [] setter.k = "id" -> next = prev
    [] setter.k = "bump" ->
         next = (IF prev.t = "num" THEN Num((prev.v % MaxNum) + 1) ELSE Num(1))
    [] setter.k = "with" ->
         /\ next.t = "ref" /\ next.v > Len(h)
         /\ \A k \in Keys :
              GetKey(h2, next, k) =
                (IF k = setter.key THEN setter.v
                 ELSE IF prev.t = "ref" THEN GetKey(h, prev, k) ELSE Undef)

\* C18 -- Writes are synchronously visible: when root.set(v) or root.set(fn)
\* returns, flushed or not, root.get() is v or fn applied to the value
\* root.get() returned just before (so successive updaters each receive the
\* result of the previous one), and get() of every selection is the value at
\* its path in that new root.
C18_SynchronousWrites ==
  [][last' = "set" =>
       \A setter \in Setters :
         Set(RootHandle, setter)
         => /\ SetterHolds(heap, cell, setter, heap', cell')
            /\ \A hd \in HeldHandles :
                 get(heap', cell', hd) = ValueAt(heap', cell', FullPath(hd))]_vars

\* store(1) had a subscriber called with 1; the updater n => n + 1 has been
\* applied twice in one turn (1, 2, and 1 again as numbers wrap at MaxNum)
\* and the flush has not run yet
C18_Witness ==
  /\ last = "set"
  /\ writes = 2
  /\ initial = Num(1)
  /\ cell = Num(((((1 % MaxNum) + 1) % MaxNum) + 1))
  /\ microtasks = 1
  /\ subs[1].st = "active" /\ subs[1].dirty /\ subs[1].arg = Num(1)

\* C19 -- Root getInitial is constant: root.getInitial() returns the value
\* passed to store(), the identical reference with the content it had, after
\* every set on the root or through a selection, whatever root.get() has
\* become.
C19_RootGetInitialConstant ==
  /\ \E s \in InitialStores : getInitial = s.v
  /\ [][/\ getInitial' = getInitial
        /\ getInitial.t = "ref" => heap'[getInitial.v] = heap[getInitial.v]]_vars

\* after a write through a selection and a write of a primitive to the root,
\* root.get() is that primitive and root.getInitial() is the object the store
\* was built with
C19_Witness ==
  /\ writes = 2
  /\ cell \in Prims
  /\ getInitial = Ref(1)
  /\ \A i \in 1..Len(ObjectHeap) : heap[i] = ObjectHeap[i]
  /\ Len(heap) > Len(ObjectHeap)

\* C20 -- Selection getInitial is constant: getInitial() of a selection with
\* path p is the value read along p from the value the root was built with,
\* and stays so after writes through that selection, through other
\* selections and through the root.
C20_SelectionGetInitialConstant ==
  canSelect =>
    \A hd \in HeldHandles :
      getInitialSelected(hd) = ValueAt(ObjectHeap, Ref(1), FullPath(hd))

\* select(0, 0) has been written through and the root replaced; get() of the
\* selection has changed and its getInitial() is still 1
C20_Witness ==
  /\ writes = 2
  /\ canSelect
  /\ getInitialSelected(<< <<0, 0>> >>) = Num(1)
  /\ getInitialSelected(<< <<0>>, <<0>> >>) = Num(1)
  /\ get(heap, cell, << <<0, 0>> >>) = Num(2)
  /\ ValueAt(heap, cell, <<1>>) # ValueAt(heap, initial, <<1>>)

\* C21 -- Array index write: for a store holding an array,
\* store.select(i).set(x) with x other than the current element leaves a
\* root that is an array, a new reference, with x at index i and every other
\* element as it was.
C21_ArrayIndexWrite ==
  [][\A key \in Keys, setter \in Setters :
       (/\ SetKey(key, setter)
        /\ isArray(heap, cell)
        /\ ~ObjectIs(ApplySetter(heap, GetKey(heap, cell, key), setter).v,
                     GetKey(heap, cell, key)))
       => /\ isArray(heap', cell')
          /\ cell' # cell
          /\ GetKey(heap', cell', key) = ApplySetter(heap, GetKey(heap, cell, key), setter).v
          /\ \A k \in Keys \ {key} : GetKey(heap', cell', k) = GetKey(heap, cell, k)]_vars

\* C22 -- Selections are views of the root: at every reachable state get()
\* of every selection, path or chained, is the value read along its keys
\* from what root.get() returns, whichever handle the writes went through.
C22_SelectionsAreViews ==
  \A hd \in HeldHandles : get(heap, cell, hd) = ValueAt(heap, cell, FullPath(hd))

\* root.set(s => ({ ...s, 1: 2 })) has replaced root[1]: select(1) reads 2,
\* select(1, 0) reads undefined and select(0, 0) still reads 1
C22_Witness ==
  /\ last = "set"
  /\ writes = 1
  /\ initial = Ref(1) /\ cell.t = "ref" /\ cell # initial
  /\ get(heap, cell, << <<1>> >>) = Num(MaxNum)
  /\ get(heap, cell, << <<1, 0>> >>) = Undef
  /\ get(heap, cell, << <<0, 0>> >>) = Num(1)
  /\ get(heap, cell, << <<0>>, <<0>> >>) = Num(1)

\* C23 -- Availability of select is fixed at creation: the root exposes
\* select exactly when the value passed to store() is structured, and no
\* set changes that: a store built on a primitive and later set to an object
\* has no select, a store built on an object and later set to a primitive
\* keeps it.
C23_SelectAvailabilityFixed ==
  /\ canSelect = (initial.t = "ref")
  /\ [][/\ canSelect' = canSelect
        /\ canSelect' = (initial.t = "ref")
        /\ (Handles' = {RootHandle}) = ~canSelect]_vars

\* store(1) has been set to an object and has no select
C23_Witness ==
  /\ initial = Num(1)
  /\ cell.t = "ref"
  /\ ~canSelect
  /\ Handles = {RootHandle}

\* the container of the last key of p is a plain mapping
LeafInMapping(h, v, p) ==
  LET c == ValueAt(h, v, Prefix(p, Len(p) - 1))
  IN c.t = "ref" /\ ~h[c.v].arr

\* C24 -- Missing leaf key: when the container of the last key of the path
\* is a plain mapping that does not own that key, sel.set(x) is discarded:
\* nothing is thrown, root.get() keeps its reference, no object is created
\* or changed, and the mapping still lacks the key.
C24_MissingLeafKey ==
  [][\A hd \in HeldHandles, setter \in Setters :
       (/\ Set(hd, setter)
        /\ LeafInMapping(heap, cell, FullPath(hd))
        /\ ~OwnsLeaf(heap, cell, FullPath(hd)))
       => /\ ~err'
          /\ cell' = cell
          /\ heap' = heap
          /\ warned' # <<>>
          /\ ~OwnsLeaf(heap', cell', FullPath(hd))]_vars

\* a write through a selection whose last key its container, a plain
\* mapping, does not own has been discarded
C24_Witness ==
  /\ last = "select.set"
  /\ warned # <<>>
  /\ ~err
  /\ Len(warned) = MaxPathLen
  /\ LeafInMapping(heap, cell, warned)
  /\ ~OwnsLeaf(heap, cell, warned)

\* the container of the last key of p is an array that ends before that key
LeafPastEnd(h, v, p) ==
  LET c == ValueAt(h, v, Prefix(p, Len(p) - 1))
  IN c.t = "ref" /\ h[c.v].arr /\ p[Len(p)] >= h[c.v].len

Invalid(h, v, p) == ~Structured(h, v, p) \/ ~OwnsLeaf(h, v, p)

\* C26 -- selectPath tolerates a path that is invalid for now: when the path
\* crosses a primitive or a missing key, get() of the store selectPath
\* returned is undefined, set(x) leaves the root as it is, and neither
\* throws.
C26_SelectPathTolerant ==
  /\ [](\A p \in Paths : Invalid(heap, cell, p) => selectPathGet(heap, cell, p) = Undef)
  /\ [][\A p \in Paths, setter \in Setters :
          (SetPath(p, setter) /\ Invalid(heap, cell, p)) => ~err' /\ cell' = cell]_vars

\* C27 -- The scheduler re-arms after every flush: a flush leaves the flag
\* set and the Watcher armed, so a write made when no flush is pending and
\* that changes the root queues one; each flush calls a subscriber whose
\* value is not the one it was last given exactly once, with the value
\* written in that turn, so k writes in k turns give k calls in write order.
C27_SchedulerRearms ==
  [][/\ last' = "flush" =>
          /\ needsEnqueue' /\ ~wDirty'
          /\ \A s \in Active :
               /\ subs'[s].n <= 1
               /\ (subs[s].arg # None /\ ~ObjectIs(subs[s].arg, Current(s)))
                    => subs'[s].n = 1 /\ subs'[s].arg = Current(s)
     /\ (last' \in {"set", "select.set"} /\ microtasks = 0 /\ cell' # cell /\ Active # {})
          => microtasks' = 1]_vars

\* store(1): the subscriber was called with 1, then with the 2 of a first
\* write in the flush that followed it, and the flush after a second write
\* has now called it with 1 again
C27_Witness ==
  /\ last = "flush"
  /\ writes = 2
  /\ initial = Num(1) /\ cell = Num(1)
  /\ subs[1].st = "active" /\ subs[1].n = 1 /\ subs[1].arg = Num(1)
  /\ microtasks = 0

\* C28 -- Effect cleanup protocol: a cleanup function returned by a run of
\* fn is called immediately before the next run of fn, or by the
\* cancellation when no run follows, and at no other moment: a run or a
\* cancellation that finds an uncalled cleanup calls it, and none calls a
\* cleanup that has been called before.
C28_CleanupProtocol ==
  [][\A s \in SubIds :
       /\ ~subs'[s].again
       /\ (subs[s].st = "active" /\ subs[s].cleanup /\ ~subs[s].used
             /\ (subs'[s].n = 1 \/ subs'[s].st = "cancelled"))
            => subs'[s].cl = 1]_vars

\* the middlewares that supplied a set wrapper
Wrappers(es) == {i \in 1..Len(es) : es[i].set # "none"}

\* the middlewares whose init calls api.set
Hydrating(es) == {i \in 1..Len(es) : es[i].init = "hydrate"}

\* what root.get() must hold after the set of store() was called with the
\* updater u when it held prev before
UpdaterHolds(h, prev, u, h2, next) ==
  IF u.plus = 0 THEN SetterHolds(h, prev, u.setter, h2, next)
  ELSE next.t = "num" /\ SetterHolds(h, prev, u.setter, h2, Num(next.v - u.plus))

\* C29 -- Middleware init runs exactly once per middleware, during store
\* construction: the init of every middleware that has one has been called
\* once when store() returns, and no later operation calls it again. A set
\* performed by init through the api handle is already reflected by get()
\* when store() returns: when every set wrapper calls next, get() holds what
\* the last hydrating init set, raised once by every incrementing wrapper it
\* went through.
C29_InitOnce ==
  /\ \A i \in 1..Len(entries) :
       entries[i].inits = (IF entries[i].init = "none" THEN 0 ELSE 1)
  /\ (/\ last = "store"
      /\ Hydrating(entries) # {}
      /\ \A i \in Wrappers(entries) : entries[i].set # "drop")
       => LET i == CHOOSE j \in Hydrating(entries) : \A k \in Hydrating(entries) : k <= j
              plus == Cardinality({j \in Wrappers(entries) : entries[j].set = "incr"})
              built == CHOOSE s \in InitialStores : s.v = initial
          IN UpdaterHolds(built.heap, initial, Updater(RootHandle, entries[i].arg, plus),
                          heap, cell)

\* store(1, { middleware: [hydrate, incrementer] }) has returned: init was
\* called once and get() is the hydrated number plus one, not the initial 1
C29_Witness ==
  /\ last = "store"
  /\ initial = Num(1)
  /\ Len(entries) = 2
  /\ entries[1].init = "hydrate" /\ entries[1].inits = 1 /\ entries[1].set = "none"
  /\ entries[2].init = "none" /\ entries[2].set = "incr" /\ entries[2].calls = 1
  /\ cell = Num(MaxNum + 1)

\* C30 -- Middleware set wrapping: on a store whose middleware supplies a set
\* wrapper, every store.set(setter) calls the outermost wrapper once with the
\* caller's setter, and every other wrapper once with what the wrapper around
\* it passed to next, or not at all when that one did not call next. The
\* stored value changes only when every wrapper called next, and then
\* according to the setter the innermost wrapper passed to next, not the
\* caller's; otherwise it is unchanged. A wrapper that reads api.get() before
\* and after next reads the value before the write and the value after it.
C30_SetWrapping ==
  [][(last' = "set" /\ Wrappers(entries) # {}) =>
       LET W == Wrappers(entries)
           outer == CHOOSE i \in W : \A j \in W : i <= j
           inner == CHOOSE i \in W : \A j \in W : j <= i
       IN /\ entries'[outer].calls = 1
          /\ \E setter \in TypedSetters :
               entries'[outer].got = <<Updater(RootHandle, setter, 0)>>
          /\ \A i, j \in W :
               (i < j /\ \A k \in W : ~(i < k /\ k < j)) =>
                 /\ entries'[j].got = entries'[i].passed
                 /\ entries'[j].calls = Len(entries'[i].passed)
          /\ \A i \in W :
               /\ entries[i].set = "drop" => entries'[i].passed = <<>>
               /\ entries[i].set = "log" => entries'[i].passed = entries'[i].got
               /\ (entries[i].set = "incr" /\ entries'[i].calls = 1) =>
                    entries'[i].passed =
                      <<[entries'[i].got[1] EXCEPT !.plus = @ + 1]>>
          /\ IF entries'[inner].passed = <<>> THEN cell' = cell /\ heap' = heap
             ELSE UpdaterHolds(heap, cell, entries'[inner].passed[1], heap', cell')
          /\ \A i \in W :
               (entries[i].set = "log" /\ entries'[i].calls = 1) =>
                 entries'[i].prev = cell /\ entries'[i].post = cell']_vars

\* store(1, { middleware: [logger, incrementer] }).set(2) has returned: the
\* logger recorded [1, 3], the incrementer passed a setter that is not the
\* caller's, and get() is 3
C30_Witness ==
  /\ last = "set"
  /\ Len(entries) = 2
  /\ entries[1].set = "log" /\ entries[1].calls = 1
  /\ entries[1].got = <<Updater(RootHandle, Lit(Num(MaxNum)), 0)>>
  /\ entries[1].prev = Num(1) /\ entries[1].post = Num(MaxNum + 1)
  /\ entries[2].set = "incr" /\ entries[2].calls = 1
  /\ entries[2].passed = <<Updater(RootHandle, Lit(Num(MaxNum)), 1)>>
  /\ cell = Num(MaxNum + 1)

\* C31 -- destroy runs each cleanup function returned by a middleware init
\* exactly once: a cleanup has not been called while destroy() has not, every
\* destroy() leaves every cleanup called once, whether it is the first
\* destroy() or a later one, and the init of a middleware that returned no
\* function has no cleanup called.
C31_DestroyOnce ==
  /\ [](\A i \in 1..Len(entries) :
          IF entries[i].init = "cleanup"
            THEN \/ entries[i].cleaned = 0 /\ (\E j \in 1..Len(cleanups) : cleanups[j] = i)
                 \/ entries[i].cleaned = 1 /\ cleanups = <<>>
          ELSE entries[i].cleaned = 0)
  /\ [][last' = "destroy" =>
          \A i \in 1..Len(entries) :
            entries[i].init = "cleanup" => entries'[i].cleaned = 1]_vars

\* store(1, { middleware: [a, b] }) where both inits return a cleanup:
\* set(...), destroy() has called both once
C31_Witness ==
  /\ last = "destroy"
  /\ writes > 0
  /\ Len(entries) = 2
  /\ \A i \in 1..2 : entries[i].init = "cleanup" /\ entries[i].cleaned = 1
  /\ cleanups = <<>>

\* C40 -- Writes made through a selection of a store with middleware pass
\* through the root's set wrappers as root.set does: selection.set(setter)
\* calls the outermost wrapper once with the updater of the selection, every
\* other wrapper with what the wrapper around it passed to next, and the root
\* value changes only when every wrapper has been called and has called next.
C40_SelectionThroughWrappers ==
  [][(last' = "select.set" /\ Wrappers(entries) # {}) =>
       LET W == Wrappers(entries)
           outer == CHOOSE i \in W : \A j \in W : i <= j
       IN /\ entries'[outer].calls = 1
          /\ \E hd \in SelHandles, setter \in Setters :
               entries'[outer].got = <<Updater(hd, setter, 0)>>
          /\ \A i, j \in W :
               (i < j /\ \A k \in W : ~(i < k /\ k < j)) =>
                 /\ entries'[j].got = entries'[i].passed
                 /\ entries'[j].calls = Len(entries'[i].passed)
          /\ (cell' # cell \/ heap' # heap) =>
               \A i \in W : entries'[i].calls = 1 /\ entries'[i].passed # <<>>
          /\ \A i \in W :
               (entries[i].set = "log" /\ entries'[i].calls = 1 /\ ~err') =>
                 entries'[i].prev = cell /\ entries'[i].post = cell']_vars

\* store({...}, { middleware: [logger] }).select(0, 0).set(2) has returned:
\* the logger was called with the updater of the selection and saw the root
\* before and after the write
C40_Witness ==
  /\ last = "select.set"
  /\ Len(entries) = 1
  /\ entries[1].set = "log" /\ entries[1].calls = 1
  /\ entries[1].got = <<Updater(<< <<0, 0>> >>, Lit(Num(MaxNum)), 0)>>
  /\ entries[1].prev = initial /\ entries[1].post = cell
  /\ cell # initial
  /\ get(heap, cell, << <<0, 0>> >>) = Num(MaxNum)

\* C32 -- Single-flight scheduling: at any moment at most one flush microtask
\* is scheduled and not yet started, whatever writes, subscribe and
\* unsubscribe calls occur before it runs.
C32_SingleFlight == microtasks <= 1

\* two subscribers, a write, a subscribe that re-arms the Watcher, a second
\* write that notifies it again: one microtask is queued
C32_Witness ==
  /\ microtasks = 1
  /\ writes = 2
  /\ last \in {"set", "select.set"}
  /\ \A s \in SubIds : subs[s].st = "active" /\ subs[s].dirty
  /\ wDirty /\ ~needsEnqueue

\* C36 -- No duplicate deliveries: two consecutive invocations of the
\* callback of one subscription never carry Object.is-equal values.
C36_NoDuplicateDelivery ==
  [][\A s \in SubIds :
       (subs[s].st = "active" /\ subs[s].k = "subscribe" /\ subs[s].arg # None
          /\ subs'[s].st = "active" /\ subs'[s].n > 0)
         => ~ObjectIs(subs'[s].arg, subs[s].arg)]_vars

\* store(1): both subscribers were given 1 when they subscribed, and the
\* flush after two writes gives them a value that is not 1
C36_Witness ==
  /\ last = "flush"
  /\ writes = 2
  /\ initial = Num(1)
  /\ \A s \in SubIds :
       /\ subs[s].st = "active" /\ subs[s].hd = RootHandle
       /\ subs[s].n = 1 /\ subs[s].arg = cell
  /\ cell # Num(1)

\* C37 -- Quiescent consistency: with callbacks that neither write nor
\* throw, whenever no flush is scheduled the previousValue slot of every
\* active subscription is Object.is-equal to what get() of its handle
\* returns.
C37_QuiescentConsistency ==
  microtasks = 0 =>
    \A s \in Active :
      subs[s].k = "subscribe" => ObjectIs(subs[s].previousValue, Current(s))

\* after two writes and the flush, a root subscriber and a selection
\* subscriber both hold the current value of their handle, which is not the
\* one they were given when they subscribed
C37_Witness ==
  /\ microtasks = 0
  /\ last = "flush"
  /\ writes = 2
  /\ subs[1].st = "active" /\ subs[1].hd = RootHandle
  /\ subs[1].previousValue = cell /\ cell # initial
  /\ subs[2].st = "active" /\ subs[2].hd # RootHandle
  /\ subs[2].previousValue = Current(2)
  /\ subs[2].previousValue # get(heap, initial, subs[2].hd)

\* C38 -- No cleanup function returned by a run of an effect's fn is ever
\* invoked more than once: no run of the effect and no cancellation calls a
\* cleanup function that has been called before.
C38_CleanupAtMostOnce == \A s \in SubIds : ~subs[s].again

\* no processPending is queued or in progress
Quiescent == ~drain.on /\ microtasks = 0

\* no computed the Watcher watches is pending
NonePending == \A s \in Active : ~subs[s].dirty

\* C33 -- Re-entrant writes are not lost: when callbacks write to the store
\* during a drain (and none throws or cancels), every active subscription is
\* re-evaluated later in that drain or in a flush scheduled for the next
\* microtask: the write never leaves a computed pending while no flush is
\* scheduled or in progress.
C33_ReentrantWriteNotLost ==
  (\A s \in SubIds : callbacks[s] \in {"none", "set"}) => (Quiescent => NonePending)

SomeoneListens == \E s \in Active : callbacks[s] = "none"

\* C39 -- A throwing callback does not wedge the scheduler: in a program whose
\* callbacks do nothing or throw, every later store.set that changes the value
\* while a subscription with a harmless callback is active leaves a flush
\* scheduled.
C39_ThrowDoesNotWedge ==
  [][((\A s \in SubIds : callbacks[s] \in {"none", "throw"})
        /\ last' = "set" /\ ~ObjectIs(cell, cell') /\ SomeoneListens)
       => microtasks' > 0]_vars

====
